---- MODULE Spec2Model ----
(***************************************************************************)
(* Model of loopy/kernel/function_interface.py: the argument id resolver   *)
(* (get_kw_pos_association), the in-kernel callables and their             *)
(* specialization steps (with_types, with_descrs, is_ready_for_codegen),   *)
(* the emission of call instructions (emit_call_insn), the registration of *)
(* specialized callables under fresh names (next_indexed_variable,         *)
(* register_pymbolic_calls_to_knl_callables), the renaming of the calls    *)
(* (ScopedFunctionNameChanger.map_call) and the constructor of             *)
(* ArrayArgDescriptor.                                                     *)
(*                                                                         *)
(* A Python dict whose keys are both integers (positional ids) and strings *)
(* (keyword ids) is a record [pos, kw] of two functions, one per key type. *)
(* None is the value NoneMap / "None".                                     *)
(***************************************************************************)
EXTENDS Integers, Sequences, FiniteSets, TLC

VARIABLES
    knl,        \* the kernel handed to get_kw_pos_association
    kwRuns,     \* the results of the successive get_kw_pos_association calls
    c0,         \* the callable the caller starts from
    calls,      \* the specialization calls made so far, oldest first
    ready,      \* the answer of is_ready_for_codegen for the current callable
    emitted,    \* the result of emit_call_insn for the current callable
    kernel_scoped_functions,    \* kernel.scoped_functions of the kernel given
    items,      \* pymbolic_exprs_to_knl_callables.items(), in iteration order
    idx,        \* the position in items of the call being registered
    pc,         \* where register_pymbolic_calls_to_knl_callables stands
    scoped_names_to_functions,
    scoped_functions_to_names,
    pymbolic_calls_to_new_names,
    unique_var, \* the candidate name for the callable of the current call
    probes,     \* the candidates tried so far for the current call
    assignLog,  \* one entry per name given to a new callable
    result,     \* the kernel that is returned
    firstRun,   \* what the first of two registrations returned
    fnInput,    \* the arguments a function is applied to on its own
    fnOutput    \* what the function returned for fnInput

fnVars == <<fnInput, fnOutput>>
callVars == <<c0, calls, ready, emitted>>
kwVars == <<knl, kwRuns>>
regVars == <<kernel_scoped_functions, items, idx, pc,
             scoped_names_to_functions, scoped_functions_to_names,
             pymbolic_calls_to_new_names, unique_var, probes, assignLog,
             result, firstRun>>

vars == <<knl, kwRuns, c0, calls, ready, emitted, kernel_scoped_functions, items, idx,
          pc, scoped_names_to_functions, scoped_functions_to_names,
          pymbolic_calls_to_new_names, unique_var, probes, assignLog,
          result, firstRun, fnInput, fnOutput>>

(***************************************************************************)
(* Bounds                                                                  *)
(***************************************************************************)
MaxArgs == 3        \* longest argument list of a kernel
MaxKwRuns == 2      \* number of times the resolver is run on one kernel
MaxCalls == 2       \* number of successive specialization calls on a callable
MaxDescrs == 2      \* largest descriptor dict handed to a callable kernel
MaxSites == 2       \* number of call sites handed to one registration
MaxProbes == 6      \* longest run of candidate names tried for one call
MaxParams == 1      \* most parameters of a call instruction
MaxAssignees == 2   \* most assignees of a call instruction
MaxDepth == 2       \* deepest nesting of calls in an expression
MaxDims == 2        \* most axes of an array argument
MaxNameLen == 4     \* longest name of a function of a call

(***************************************************************************)
(* Generic helpers                                                         *)
(***************************************************************************)
\* d[k] = v on a Python dict
Put(f, k, v) == [y \in (DOMAIN f) \cup {k} |-> IF y = k THEN v ELSE f[y]]

EmptyMap == <<>>

Range(f) == {f[y] : y \in DOMAIN f}

\* all sequences over S of length at most n without repeated elements
DistinctSeqs(S, n) ==
    {s \in UNION {[1..k -> S] : k \in 0..n} :
        \A i, j \in DOMAIN s : i # j => s[i] # s[j]}

(***************************************************************************)
(* Kernels: ordered argument declarations and the set of written variables *)
(***************************************************************************)
ArgNames == {"K", "u", "lap", "w"}
VarNames == ArgNames \cup {"tmp"}

\* None in place of a shape or of dim_tags
NoShape == <<"None">>

\* an argument declaration without type and without shape
KernelArg(n) ==
    [name |-> n, dtype |-> "None", shape |-> NoShape, dim_tags |-> NoShape]

Kernels ==
    {[name |-> <<"g">>,
      args |-> [i \in DOMAIN s |-> KernelArg(s[i])],
      written |-> wr] :
        s \in DistinctSeqs(ArgNames, MaxArgs), wr \in SUBSET VarNames}

(***************************************************************************)
(* get_kw_pos_association                                                  *)
(***************************************************************************)
\* the loop over kernel.args, from argument i on, with the dicts and the
\* two counters as they are when argument i is reached
RECURSIVE KwScan(_, _, _, _, _, _)
KwScan(kernel, i, kw_to_pos, pos_to_kw, read_count, write_count) ==
    IF i > Len(kernel.args)
    THEN [kw_to_pos |-> kw_to_pos, pos_to_kw |-> pos_to_kw]
    ELSE LET name == kernel.args[i].name IN
         IF name \notin kernel.written
         THEN KwScan(kernel, i + 1,
                     Put(kw_to_pos, name, read_count),
                     Put(pos_to_kw, read_count, name),
                     read_count + 1, write_count)
         ELSE KwScan(kernel, i + 1,
                     Put(kw_to_pos, name, write_count),
                     Put(pos_to_kw, write_count, name),
                     read_count, write_count - 1)

\* mutant: the write counter starts at 0 instead of -1
get_kw_pos_association_zero(kernel) ==
    KwScan(kernel, 1, EmptyMap, EmptyMap, 0, 0)

\* mutant: ids are handed out from the end of the argument list
get_kw_pos_association_rev(kernel) ==
    KwScan([kernel EXCEPT !.args =
                [i \in DOMAIN kernel.args |->
                    kernel.args[Len(kernel.args) + 1 - i]]],
           1, EmptyMap, EmptyMap, 0, -1)

get_kw_pos_association(kernel) ==
    KwScan(kernel, 1, EmptyMap, EmptyMap, 0, -1)

(***************************************************************************)
(* Types, dicts, descriptors and callables                                 *)
(***************************************************************************)
Types == {"int32", "float64"}

\* kernel.index_dtype of the calling kernel
index_dtype == "int32"

\* a dict with integer and string keys; None in place of a dict
NoneMap == [isNone |-> TRUE, pos |-> EmptyMap, kw |-> EmptyMap]
Dict(p, k) == [isNone |-> FALSE, pos |-> p, kw |-> k]
DictLen(d) == Cardinality(DOMAIN d.pos) + Cardinality(DOMAIN d.kw)

\* None in place of a name; names are sequences of characters
NoName == <<>>

ValueArgDescriptor == [kind |-> "Value", shape |-> <<>>, dim_tags |-> <<>>]
ArrayArgDescriptor(shape, dim_tags) ==
    [kind |-> "Array", shape |-> shape, dim_tags |-> dim_tags]
\* a descriptor that is neither an array nor a value descriptor
OtherDescriptor == [kind |-> "Other", shape |-> <<>>, dim_tags |-> <<>>]

NoKernel == [name |-> NoName, args |-> <<>>, written |-> {}]

NoCallable ==
    [cls |-> "None", name |-> "None", function_mangler |-> "None",
     subkernel |-> NoKernel, arg_id_to_dtype |-> NoneMap,
     arg_id_to_descr |-> NoneMap, name_in_target |-> NoName]

ScalarCallable(name, arg_id_to_dtype, arg_id_to_descr, name_in_target) ==
    [cls |-> "ScalarCallable", name |-> name, function_mangler |-> "None",
     subkernel |-> NoKernel, arg_id_to_dtype |-> arg_id_to_dtype,
     arg_id_to_descr |-> arg_id_to_descr, name_in_target |-> name_in_target]

CallableKernel(subkernel, arg_id_to_dtype, arg_id_to_descr, name_in_target) ==
    [cls |-> "CallableKernel", name |-> "None", function_mangler |-> "None",
     subkernel |-> IF name_in_target # NoName
                   THEN [subkernel EXCEPT !.name = name_in_target]
                   ELSE subkernel,
     arg_id_to_dtype |-> arg_id_to_dtype,
     arg_id_to_descr |-> arg_id_to_descr, name_in_target |-> name_in_target]

ManglerCallable(name, function_mangler, arg_id_to_dtype, arg_id_to_descr, name_in_target) ==
    [cls |-> "ManglerCallable", name |-> name,
     function_mangler |-> function_mangler,
     subkernel |-> NoKernel, arg_id_to_dtype |-> arg_id_to_dtype,
     arg_id_to_descr |-> arg_id_to_descr, name_in_target |-> name_in_target]

\* self.copy(arg_id_to_dtype=..., arg_id_to_descr=..., name_in_target=...,
\* subkernel=...): the constructor of the class of self, run on the fields
\* of self with the given ones replaced
Copy(self, subkernel, arg_id_to_dtype, arg_id_to_descr, name_in_target) ==
    IF self.cls = "CallableKernel"
    THEN CallableKernel(subkernel, arg_id_to_dtype, arg_id_to_descr,
                        name_in_target)
    ELSE IF self.cls = "ManglerCallable"
    THEN ManglerCallable(self.name, self.function_mangler, arg_id_to_dtype,
                         arg_id_to_descr, name_in_target)
    ELSE ScalarCallable(self.name, arg_id_to_dtype, arg_id_to_descr,
                        name_in_target)

\* the result of a call: what was returned or raised, and the dict that was
\* passed in as it is after the call
Ok(value, arg) == [status |-> "ok", value |-> value, arg |-> arg]
Raise(kind, arg) == [status |-> kind, value |-> NoCallable, arg |-> arg]

(***************************************************************************)
(* with_types                                                              *)
(***************************************************************************)
\* the ways the loop over arg_id_to_dtype.items() can end when the callable
\* is already specialized: the first id the iteration reaches that is
\* missing from self.arg_id_to_dtype raises KeyError, the first that differs
\* raises LoopyError; the iteration order of the dict is not fixed
CheckSpecialized(self, m) ==
    IF self.arg_id_to_dtype.isNone THEN {"ok"}
    ELSE LET old == self.arg_id_to_dtype
             bad ==
               {IF id \notin DOMAIN old.pos THEN "KeyError"
                ELSE "ConflictingSpecialization" :
                    id \in {i \in DOMAIN m.pos :
                              i \notin DOMAIN old.pos
                              \/ old.pos[i] # m.pos[i]}}
               \cup
               {IF id \notin DOMAIN old.kw THEN "KeyError"
                ELSE "ConflictingSpecialization" :
                    id \in {i \in DOMAIN m.kw :
                              i \notin DOMAIN old.kw
                              \/ old.kw[i] # m.kw[i]}}
         IN  IF bad = {} THEN {"ok"} ELSE bad

\* kernel.target.get_device_ast_builder().function_identifiers()
TargetFunctionIdentifiers == {"foo"}

\* kernel.target.get_device_ast_builder().with_types(callable, m) for a
\* one-argument builtin: None until the type of argument 0 is known, then
\* the callable typed with that type for argument and result
TargetWithTypes(self, m) ==
    IF 0 \in DOMAIN m.pos
    THEN [isNone |-> FALSE,
          value |-> Copy(self, self.subkernel,
                         Dict((0 :> m.pos[0]) @@ (-1 :> m.pos[0]), EmptyMap),
                         self.arg_id_to_descr, <<self.name>>)]
    ELSE [isNone |-> TRUE, value |-> NoCallable]

\* the extremum-with-index reduction operators
ArgExtOps == {"argmax"}

\* op.result_dtypes(kernel, scalar_dtype, index_dtype)
ResultDtypes(op, scalar_dtype, idx_dtype) == <<scalar_dtype, idx_dtype>>

\* for i in range(i, n): if i in m: new[-i-1] = m[i]
RECURSIVE MakeTupleLoop(_, _, _, _)
MakeTupleLoop(m, new, i, n) ==
    IF i >= n THEN new
    ELSE IF i \in DOMAIN m.pos
    THEN MakeTupleLoop(m, Put(new, -i-1, m.pos[i]), i + 1, n)
    ELSE MakeTupleLoop(m, new, i + 1, n)

\* ScalarCallable.with_types after the check of an earlier specialization
ScalarResolve(self, m) ==
    IF self.name \in TargetFunctionIdentifiers
    THEN LET r == TargetWithTypes(self, m) IN
         IF r.isNone
         THEN Ok(Copy(self, self.subkernel, self.arg_id_to_dtype,
                      self.arg_id_to_descr, self.name_in_target), m)
         ELSE Ok(r.value, m)
    ELSE IF self.name \in {"indexof", "indexof_vec"}
    THEN Ok(Copy(self, self.subkernel,
                 Dict(Put(m.pos, -1, index_dtype), m.kw),
                 self.arg_id_to_descr, self.name_in_target), m)
    ELSE IF self.name = "make_tuple"
    THEN Ok(Copy(self, self.subkernel,
                 Dict(MakeTupleLoop(m, m.pos, 0, DictLen(m)), m.kw),
                 self.arg_id_to_descr, <<"loopy_make_tuple">>), m)
    ELSE IF self.name \in ArgExtOps
    THEN IF {0, 1} \subseteq DOMAIN m.pos
         THEN LET result_dtypes ==
                      ResultDtypes(self.name, m.pos[0], m.pos[1])
              IN  Ok(Copy(self, self.subkernel,
                          Dict(Put(Put(m.pos, -1, result_dtypes[1]),
                                   -2, result_dtypes[2]), m.kw),
                          self.arg_id_to_descr,
                          <<"loopy_arg", "max", m.pos[0], m.pos[1], "op">>),
                     m)
         ELSE Raise("KeyError", m)
    ELSE Raise("UnknownFunction", m)

\* ScalarCallable.with_types(arg_id_to_dtype, kernel): the set of results
ScalarCallable_with_types(self, m) ==
    {IF st = "ok" THEN ScalarResolve(self, m) ELSE Raise(st, m) :
        st \in CheckSpecialized(self, m)}

\* the type resolvers a ManglerCallable is built with
Manglers == {"exact", "promote", "reject"}

\* self.function_mangler(kernel.target, self.name, arg_dtypes)
function_mangler(mangler, name, arg_dtypes) ==
    IF mangler = "exact" /\ Len(arg_dtypes) > 0
    THEN [isNone |-> FALSE, target_name |-> <<name, "exact">>,
          result_dtypes |-> <<arg_dtypes[1]>>, arg_dtypes |-> arg_dtypes]
    ELSE IF mangler = "promote" /\ Len(arg_dtypes) > 0
    THEN [isNone |-> FALSE, target_name |-> <<name, "promote">>,
          result_dtypes |-> <<"float64">>,
          arg_dtypes |-> [i \in DOMAIN arg_dtypes |-> "float64"]]
    ELSE [isNone |-> TRUE, target_name |-> NoName,
          result_dtypes |-> <<>>, arg_dtypes |-> <<>>]

\* the values of f at its keys >= lo, by increasing key
RECURSIVE SortedFrom(_, _)
SortedFrom(f, lo) ==
    LET ks == {k \in DOMAIN f : k >= lo} IN
    IF ks = {} THEN <<>>
    ELSE LET k == CHOOSE x \in ks : \A y \in ks : x <= y
         IN  <<f[k]>> \o SortedFrom(f, k + 1)

\* dict(enumerate(arg_dtypes)) updated with {-i-1: result_dtypes[i]}
MangledDtypes(arg_dtypes, result_dtypes) ==
    [id \in (0 .. Len(arg_dtypes) - 1)
            \cup {-i : i \in 1 .. Len(result_dtypes)} |->
        IF id >= 0 THEN arg_dtypes[id + 1] ELSE result_dtypes[-id]]

\* ManglerCallable.with_types after the check of an earlier specialization
ManglerResolve(self, m) ==
    LET arg_dtypes == SortedFrom(m.pos, 0)
        mangle_result ==
            function_mangler(self.function_mangler, self.name, arg_dtypes)
    IN  IF ~mangle_result.isNone
        THEN Ok(Copy(self, self.subkernel,
                     Dict(MangledDtypes(mangle_result.arg_dtypes,
                                        mangle_result.result_dtypes),
                          EmptyMap),
                     self.arg_id_to_descr, mangle_result.target_name), m)
        ELSE \* the message has one %s for two values
             Raise("TypeError", m)

ManglerCallable_with_types(self, m) ==
    {IF st = "ok" THEN ManglerResolve(self, m) ELSE Raise(st, m) :
        st \in CheckSpecialized(self, m)}

\* infer_unknown_types(kernel, expect_completion=True): an untyped written
\* argument takes the type of the first typed argument that is not
\* written; inference fails when an argument stays untyped
FirstTypedInput(kernel) ==
    LET ins == SelectSeq(kernel.args,
                LAMBDA a : a.name \notin kernel.written /\ a.dtype # "None")
    IN  IF ins = <<>> THEN "None" ELSE ins[1].dtype

infer_unknown_types(kernel) ==
    [kernel EXCEPT !.args =
        [i \in DOMAIN kernel.args |->
            IF kernel.args[i].dtype = "None"
               /\ kernel.args[i].name \in kernel.written
            THEN [kernel.args[i] EXCEPT !.dtype = FirstTypedInput(kernel)]
            ELSE kernel.args[i]]]

\* mutant: the type given by position goes before the type given by keyword
TypedArgs_posfirst(subkernel, m, kw_to_pos) ==
    [i \in DOMAIN subkernel.args |->
        LET arg == subkernel.args[i] IN
        IF kw_to_pos[arg.name] \in DOMAIN m.pos
        THEN [arg EXCEPT !.dtype = m.pos[kw_to_pos[arg.name]]]
        ELSE IF arg.name \in DOMAIN m.kw
        THEN [arg EXCEPT !.dtype = m.kw[arg.name]]
        ELSE arg]

\* new_args of CallableKernel.with_types: the type given by keyword, else
\* the type given by position, else the argument as it is
TypedArgs(subkernel, m, kw_to_pos) ==
    [i \in DOMAIN subkernel.args |->
        LET arg == subkernel.args[i] IN
        IF arg.name \in DOMAIN m.kw
        THEN [arg EXCEPT !.dtype = m.kw[arg.name]]
        ELSE IF kw_to_pos[arg.name] \in DOMAIN m.pos
        THEN [arg EXCEPT !.dtype = m.pos[kw_to_pos[arg.name]]]
        ELSE arg]

\* new_arg_id_to_dtype of CallableKernel.with_types: every argument under
\* its keyword and under its positional id
HarvestedDtypes(kernel, kw_to_pos) ==
    Dict([id \in {kw_to_pos[kernel.args[i].name] : i \in DOMAIN kernel.args}
            |-> LET i == CHOOSE j \in DOMAIN kernel.args :
                            kw_to_pos[kernel.args[j].name] = id
                IN  kernel.args[i].dtype],
         [n \in {kernel.args[i].name : i \in DOMAIN kernel.args}
            |-> LET i == CHOOSE j \in DOMAIN kernel.args :
                            kernel.args[j].name = n
                IN  kernel.args[i].dtype])

\* CallableKernel.with_types(arg_id_to_dtype, kernel): the set of results
CallableKernel_with_types(self, m) ==
    LET assoc == get_kw_pos_association(self.subkernel)
        pre_specialized_subkernel ==
            [self.subkernel EXCEPT
                !.args = TypedArgs(self.subkernel, m, assoc.kw_to_pos)]
        specialized_kernel == infer_unknown_types(pre_specialized_subkernel)
    IN  IF \E i \in DOMAIN specialized_kernel.args :
                specialized_kernel.args[i].dtype = "None"
        THEN {Raise("InferenceFailed", m)}
        ELSE {Ok(Copy(self, specialized_kernel,
                      HarvestedDtypes(specialized_kernel, assoc.kw_to_pos),
                      self.arg_id_to_descr, self.name_in_target), m)}

(***************************************************************************)
(* with_descrs and is_ready_for_codegen                                    *)
(***************************************************************************)
\* ScalarCallable.with_descrs(arg_id_to_descr), inherited by
\* ManglerCallable: the entry for -1 is written into the dict that was
\* passed in, and the new callable holds that same dict
ScalarCallable_with_descrs(self, m) ==
    LET written == Dict(Put(m.pos, -1, ValueArgDescriptor), m.kw) IN
    {Ok(Copy(self, self.subkernel, self.arg_id_to_dtype, written,
             self.name_in_target), written)}

\* the keys of a dict, integer and string keys alike
DictKey(isKw, i, n) == [isKw |-> isKw, i |-> i, n |-> n]
DictKeys(m) ==
    {DictKey(FALSE, k, "") : k \in DOMAIN m.pos}
    \cup {DictKey(TRUE, 0, k) : k \in DOMAIN m.kw}

\* the orders in which a dict may hand out its keys
Orders(S) ==
    {s \in [1 .. Cardinality(S) -> S] :
        \A i, j \in DOMAIN s : i # j => s[i] # s[j]}

\* new_args[id] of a Python list given as a sequence: position id from the
\* front for id >= 0, from the back for id < 0
ListIndex(list, id) == IF id >= 0 THEN id + 1 ELSE Len(list) + id + 1

\* the loop over arg_id_to_descr.items() of CallableKernel.with_descrs,
\* from the j-th key of the order on
RECURSIVE DescrLoop(_, _, _, _, _)
DescrLoop(order, j, m, kw_to_pos, new_args) ==
    IF j > Len(order) THEN [status |-> "ok", args |-> new_args]
    ELSE
    LET key == order[j]
        descr == IF key.isKw THEN m.kw[key.n] ELSE m.pos[key.i]
    IN
    IF key.isKw /\ key.n \notin DOMAIN kw_to_pos
    THEN [status |-> "KeyError", args |-> new_args]
    ELSE
    LET id == IF key.isKw THEN kw_to_pos[key.n] ELSE key.i
        slot == ListIndex(new_args, id)
    IN
    IF descr.kind = "Array"
    THEN IF slot \notin DOMAIN new_args
         THEN [status |-> "IndexError", args |-> new_args]
         ELSE DescrLoop(order, j + 1, m, kw_to_pos,
                [new_args EXCEPT ![slot] =
                    [@ EXCEPT !.shape = descr.shape,
                              !.dim_tags = descr.dim_tags]])
    ELSE IF descr.kind = "Value"
    THEN DescrLoop(order, j + 1, m, kw_to_pos, new_args)
    ELSE [status |-> "InvalidDescriptor", args |-> new_args]

\* CallableKernel.with_descrs(arg_id_to_descr): the set of results, one per
\* iteration order of the dict
CallableKernel_with_descrs(self, m) ==
    LET assoc == get_kw_pos_association(self.subkernel) IN
    {LET r == DescrLoop(order, 1, m, assoc.kw_to_pos, self.subkernel.args)
     IN  IF r.status = "ok"
         THEN Ok(Copy(self, [self.subkernel EXCEPT !.args = r.args],
                      self.arg_id_to_dtype, m, self.name_in_target), m)
         ELSE Raise(r.status, m) :
        order \in Orders(DictKeys(m))}

NotAsked == [asked |-> FALSE, callable |-> NoCallable, answer |-> FALSE]

\* mutant: the name in the target is not looked at
is_ready_for_codegen_noname(self) ==
    /\ ~self.arg_id_to_dtype.isNone
    /\ ~self.arg_id_to_descr.isNone

\* InKernelCallable / ScalarCallable / CallableKernel.is_ready_for_codegen
is_ready_for_codegen(self) ==
    IF self.cls = "CallableKernel"
    THEN /\ ~self.arg_id_to_dtype.isNone
         /\ ~self.arg_id_to_descr.isNone
         /\ self.name_in_target # NoName
    ELSE /\ ~self.arg_id_to_dtype.isNone
         /\ ~self.arg_id_to_descr.isNone

(***************************************************************************)
(* emit_call_insn                                                          *)
(***************************************************************************)
\* a call instruction as emit_call_insn reads it: the number of parameters
\* of insn.expression, and for every assignee the type that
\* expression_to_code_mapper.infer_type gives it
CallInstruction(parameters, assignees) ==
    [parameters |-> parameters, assignees |-> assignees]

NotEmitted ==
    [asked |-> FALSE, callable |-> NoCallable,
     insn |-> CallInstruction(0, <<>>), status |-> "None",
     name |-> NoName, c_parameters |-> 0]

\* what emit_call_insn returns: the call of name_in_target on the
\* parameters followed by the assignees
EmittedCall(self, insn) ==
    [status |-> "ok", name |-> self.name_in_target,
     c_parameters |-> insn.parameters + Len(insn.assignees)]
EmitRaise(kind) == [status |-> kind, name |-> NoName, c_parameters |-> 0]

\* self.arg_id_to_dtype[i] is read for every parameter and
\* self.arg_id_to_dtype[-i-1] for every assignee
EmitLooksUpMissing(self, insn) ==
    \/ \E i \in 0 .. insn.parameters - 1 :
            i \notin DOMAIN self.arg_id_to_dtype.pos
    \/ \E i \in DOMAIN insn.assignees :
            -i \notin DOMAIN self.arg_id_to_dtype.pos

\* ScalarCallable.emit_call_insn, inherited by ManglerCallable
ScalarCallable_emit_call_insn(self, insn) ==
    IF ~is_ready_for_codegen(self) THEN EmitRaise("AssertionError")
    ELSE IF EmitLooksUpMissing(self, insn) THEN EmitRaise("KeyError")
    ELSE IF \E i \in DOMAIN insn.assignees :
                self.arg_id_to_dtype.pos[-i] # insn.assignees[i]
    THEN EmitRaise("TypeMismatch")
    ELSE EmittedCall(self, insn)

\* CallableKernel.emit_call_insn on a call without keyword parameters
CallableKernel_emit_call_insn(self, insn) ==
    IF ~is_ready_for_codegen(self) THEN EmitRaise("AssertionError")
    ELSE IF EmitLooksUpMissing(self, insn) THEN EmitRaise("KeyError")
    ELSE EmittedCall(self, insn)

(***************************************************************************)
(* Names and next_indexed_variable                                         *)
(***************************************************************************)
\* a name is a sequence of characters; a function identifier is a Variable
\* with a name or an ArgExtOp with its reduction operator
Variable(name) == [kind |-> "Variable", name |-> name]
ArgExtOp(op) == [kind |-> "ArgExtOp", name |-> <<op>>]
NoFunction == [kind |-> "None", name |-> NoName]

DigitChars == <<"0", "1", "2", "3", "4", "5", "6", "7", "8", "9">>
IsDigit(ch) == \E d \in DOMAIN DigitChars : DigitChars[d] = ch
DigitValue(ch) == (CHOOSE d \in DOMAIN DigitChars : DigitChars[d] = ch) - 1

\* int(num) for a sequence of digits
RECURSIVE ParseInt(_)
ParseInt(num) ==
    IF num = <<>> THEN 0
    ELSE 10 * ParseInt(SubSeq(num, 1, Len(num) - 1))
         + DigitValue(num[Len(num)])

\* str(n) for n >= 0
RECURSIVE FormatInt(_)
FormatInt(n) ==
    IF n < 10 THEN <<DigitChars[n + 1]>>
    ELSE FormatInt(n \div 10) \o <<DigitChars[(n % 10) + 1]>>

\* the number of digits the name ends with
RECURSIVE TrailingDigits(_)
TrailingDigits(name) ==
    IF name = <<>> \/ ~IsDigit(name[Len(name)]) THEN 0
    ELSE 1 + TrailingDigits(SubSeq(name, 1, Len(name) - 1))

\* the match of ^(?P<alpha>\S+?)_(?P<num>\d+?)$ : num is the run of digits
\* the name ends with, after an underscore that something precedes
RegexMatch(name) ==
    LET d == TrailingDigits(name)
        u == Len(name) - d
    IN  IF d > 0 /\ u >= 2 /\ name[u] = "_"
        THEN [matched |-> TRUE,
              alpha |-> SubSeq(name, 1, u - 1),
              num |-> SubSeq(name, u + 1, Len(name))]
        ELSE [matched |-> FALSE, alpha |-> <<>>, num |-> <<>>]

\* mutant: a name that ends with an underscore gets _0 like any other
next_indexed_variable_plain(function) ==
    IF function.kind = "ArgExtOp" THEN function
    ELSE LET match == RegexMatch(function.name) IN
         IF ~match.matched
         THEN Variable(function.name \o <<"_", "0">>)
         ELSE Variable(match.alpha \o <<"_">>
                       \o FormatInt(ParseInt(match.num) + 1))

\* mutant: the number is kept as it is
next_indexed_variable_same(function) ==
    IF function.kind = "ArgExtOp" THEN function
    ELSE LET match == RegexMatch(function.name) IN
         IF ~match.matched
         THEN IF function.name[Len(function.name)] = "_"
              THEN Variable(function.name \o <<"0">>)
              ELSE Variable(function.name \o <<"_", "0">>)
         ELSE Variable(match.alpha \o <<"_">>
                       \o FormatInt(ParseInt(match.num)))

next_indexed_variable(function) ==
    IF function.kind = "ArgExtOp" THEN function
    ELSE LET match == RegexMatch(function.name) IN
         IF ~match.matched
         THEN IF function.name[Len(function.name)] = "_"
              THEN Variable(function.name \o <<"0">>)
              ELSE Variable(function.name \o <<"_", "0">>)
         ELSE Variable(match.alpha \o <<"_">>
                       \o FormatInt(ParseInt(match.num) + 1))

\* the number a name ends with, -1 when it ends with none
Suffix(function) ==
    LET match == RegexMatch(function.name) IN
    IF match.matched THEN ParseInt(match.num) ELSE -1

(***************************************************************************)
(* Values the variables of one part have while another part runs           *)
(***************************************************************************)
IdleKw ==
    /\ knl = [name |-> <<"g">>, args |-> <<>>, written |-> {}]
    /\ kwRuns = <<>>

\* no function is applied on its own
NotApplied == [applied |-> FALSE]
IdleFn ==
    /\ fnInput = NotApplied
    /\ fnOutput = NotApplied

IdleCall ==
    /\ c0 = NoCallable
    /\ calls = <<>>
    /\ ready = NotAsked
    /\ emitted = NotEmitted

IdleReg ==
    /\ kernel_scoped_functions = EmptyMap
    /\ items = <<>>
    /\ idx = 0
    /\ pc = "idle"
    /\ scoped_names_to_functions = EmptyMap
    /\ scoped_functions_to_names = EmptyMap
    /\ pymbolic_calls_to_new_names = EmptyMap
    /\ unique_var = NoFunction
    /\ probes = <<>>
    /\ assignLog = <<>>
    /\ result = [returned |-> FALSE, scoped_functions |-> EmptyMap,
                 calls |-> <<>>]
    /\ firstRun = [returned |-> FALSE, scoped_functions |-> EmptyMap,
                   calls |-> <<>>]

(***************************************************************************)
(* Specification SpecKw: the resolver applied to a kernel, repeatedly      *)
(***************************************************************************)
InitKw ==
    /\ knl \in Kernels
    /\ kwRuns = <<>>
    /\ IdleFn
    /\ IdleCall
    /\ IdleReg

\* one call of get_kw_pos_association(knl); the kernel is left as it is
KwCall ==
    /\ Len(kwRuns) < MaxKwRuns
    /\ kwRuns' = Append(kwRuns, get_kw_pos_association(knl))
    /\ UNCHANGED <<fnVars, knl, callVars, regVars>>

NextKw == KwCall

SpecKw == InitKw /\ [][NextKw]_vars

\* the names and the written names of the kernel's arguments, in order
KnlArgNames == {knl.args[i].name : i \in DOMAIN knl.args}
KnlInputs == SelectSeq(knl.args, LAMBDA a : a.name \notin knl.written)
KnlOutputs == SelectSeq(knl.args, LAMBDA a : a.name \in knl.written)

\* C5: for every kernel, kw_to_pos and pos_to_kw are mutually inverse
\* bijections between the argument names and their ids, arguments outside
\* the write set get ids >= 0, written arguments get ids < 0, and a second
\* run on the unchanged kernel returns the same maps.
C5_KwPosBijection ==
    \A r \in DOMAIN kwRuns :
        LET kw == kwRuns[r].kw_to_pos
            pos == kwRuns[r].pos_to_kw
        IN  /\ DOMAIN kw = KnlArgNames
            /\ DOMAIN pos = Range(kw)
            /\ \A n \in DOMAIN kw : pos[kw[n]] = n
            /\ \A p \in DOMAIN pos : kw[pos[p]] = p
            /\ \A n \in DOMAIN kw : (n \notin knl.written) <=> (kw[n] >= 0)
            /\ \A n \in DOMAIN kw : (n \in knl.written) <=> (kw[n] < 0)
            /\ kwRuns[r] = kwRuns[1]

\* a kernel with inputs and outputs, resolved twice
C5_Witness ==
    /\ Len(kwRuns) = 2
    /\ Len(KnlInputs) >= 2
    /\ Len(KnlOutputs) >= 1

\* C6: the k-th non-written argument in declaration order gets id k and
\* the k-th written argument gets id -(k+1), so the ids are 0..n_in-1 and
\* -1..-n_out without gaps; arguments K, u (inputs) and lap (written) give
\* {K:0, u:1, lap:-1}.
C6_KwPosScanOrder ==
    \A r \in DOMAIN kwRuns :
        LET kw == kwRuns[r].kw_to_pos IN
        /\ \A k \in DOMAIN KnlInputs : kw[KnlInputs[k].name] = k - 1
        /\ \A k \in DOMAIN KnlOutputs : kw[KnlOutputs[k].name] = -k
        /\ Range(kw) = (0 .. Len(KnlInputs) - 1)
                        \cup {-k : k \in 1 .. Len(KnlOutputs)}
        /\ ( /\ Len(knl.args) = 3
             /\ knl.args[1].name = "K" /\ knl.args[2].name = "u"
             /\ knl.args[3].name = "lap"
             /\ knl.written \cap ArgNames = {"lap"} )
           => kw = [K |-> 0, u |-> 1, lap |-> -1]

\* the kernel of the example has been resolved
C6_Witness ==
    /\ Len(kwRuns) >= 1
    /\ Len(knl.args) = 3
    /\ knl.args[1].name = "K" /\ knl.args[2].name = "u"
    /\ knl.args[3].name = "lap"
    /\ knl.written = {"lap", "tmp"}
    /\ kwRuns[1].kw_to_pos = [K |-> 0, u |-> 1, lap |-> -1]
    /\ kwRuns[1].pos_to_kw = (0 :> "K") @@ (1 :> "u") @@ (-1 :> "lap")

(***************************************************************************)
(* Specification SpecCall: a caller specializes a callable step by step,   *)
(* each step on the callable the previous one returned                     *)
(***************************************************************************)
PartialFns(D, R) == UNION {[S -> R] : S \in SUBSET D}

ScalarIds == {-1, 0, 1}
KernelIds == {-1, 0}
KernelKws == {"u"}

Descrs == {ValueArgDescriptor, ArrayArgDescriptor(<<"n">>, <<"stride:1">>),
           OtherDescriptor}

\* the subkernels of the callable kernels: one input u and one written
\* argument lap, declared in either order
SubKernels ==
    {[name |-> <<"g">>,
      args |-> [i \in DOMAIN s |-> KernelArg(s[i])],
      written |-> {"lap"}] : s \in {<<"u", "lap">>, <<"lap", "u">>}}

\* callables as they are constructed, before any specialization
FreshCallables ==
    {ScalarCallable(n, NoneMap, NoneMap, NoName) :
        n \in {"foo", "indexof", "make_tuple", "bar", "argmax"}}
    \cup {ManglerCallable("pow", mg, NoneMap, NoneMap, NoName) :
            mg \in Manglers}
    \cup {CallableKernel(sk, NoneMap, NoneMap, nit) :
            sk \in SubKernels, nit \in {NoName, <<"g", "_", "0">>}}

\* the dicts a caller passes to with_types and with_descrs
TypeInputs(self) ==
    IF self.cls = "CallableKernel"
    THEN {Dict(p, k) : p \in PartialFns(KernelIds, Types),
                       k \in PartialFns(KernelKws, Types)}
    ELSE {Dict(p, EmptyMap) : p \in PartialFns(ScalarIds, Types)}

DescrInputs(self) ==
    IF self.cls = "CallableKernel"
    THEN {d \in {Dict(p, k) : p \in PartialFns(KernelIds, Descrs),
                              k \in PartialFns(KernelKws, Descrs)} :
            DictLen(d) <= MaxDescrs}
    ELSE {Dict(p, EmptyMap) : p \in PartialFns(KernelIds, Descrs)}

InitCall ==
    /\ IdleKw
    /\ IdleFn
    /\ IdleReg
    /\ c0 \in FreshCallables
    /\ calls = <<>>
    /\ ready = NotAsked
    /\ emitted = NotEmitted

\* the callable the caller holds: the one the last call returned
Receiver == IF calls = <<>> THEN c0 ELSE calls[Len(calls)].value

CanCall ==
    /\ Len(calls) < MaxCalls
    /\ calls # <<>> => calls[Len(calls)].status = "ok"

\* the record of a call: the receiver and the dict before and after it,
\* and its result
CallRecord(op, self, m, o) ==
    [op |-> op, recv |-> self, arg |-> m, recvAfter |-> self,
     argAfter |-> o.arg, status |-> o.status, value |-> o.value]

DoCall(op, m, o) ==
    /\ calls' = Append(calls, CallRecord(op, Receiver, m, o))
    /\ ready' = NotAsked
    /\ emitted' = NotEmitted
    /\ UNCHANGED <<fnVars, kwVars, regVars, c0>>

ScalarWithTypes ==
    /\ CanCall
    /\ Receiver.cls = "ScalarCallable"
    /\ \E m \in TypeInputs(Receiver) :
        \E o \in ScalarCallable_with_types(Receiver, m) :
            DoCall("with_types", m, o)

ManglerWithTypes ==
    /\ CanCall
    /\ Receiver.cls = "ManglerCallable"
    /\ \E m \in TypeInputs(Receiver) :
        \E o \in ManglerCallable_with_types(Receiver, m) :
            DoCall("with_types", m, o)

KernelWithTypes ==
    /\ CanCall
    /\ Receiver.cls = "CallableKernel"
    /\ \E m \in TypeInputs(Receiver) :
        \E o \in CallableKernel_with_types(Receiver, m) :
            DoCall("with_types", m, o)

ScalarWithDescrs ==
    /\ CanCall
    /\ Receiver.cls \in {"ScalarCallable", "ManglerCallable"}
    /\ \E m \in DescrInputs(Receiver) :
        \E o \in ScalarCallable_with_descrs(Receiver, m) :
            DoCall("with_descrs", m, o)

KernelWithDescrs ==
    /\ CanCall
    /\ Receiver.cls = "CallableKernel"
    /\ \E m \in DescrInputs(Receiver) :
        \E o \in CallableKernel_with_descrs(Receiver, m) :
            DoCall("with_descrs", m, o)

\* is_ready_for_codegen() asked of the callable the caller holds
IsReadyForCodegen ==
    /\ calls # <<>> => calls[Len(calls)].status = "ok"
    /\ ~ready.asked
    /\ ready' = [asked |-> TRUE, callable |-> Receiver,
                 answer |-> is_ready_for_codegen(Receiver)]
    /\ emitted' = NotEmitted
    /\ UNCHANGED <<fnVars, kwVars, regVars, c0, calls>>

\* the call instructions handed to emit_call_insn; a callable that is not
\* ready fails the assertion whatever the instruction
CallInstructions(self) ==
    IF is_ready_for_codegen(self)
    THEN {CallInstruction(n, a) :
            n \in 0 .. MaxParams,
            a \in UNION {[1 .. k -> Types] : k \in 1 .. MaxAssignees}}
    ELSE {CallInstruction(0, <<"int32">>)}

\* emit_call_insn(insn, target, expression_to_code_mapper) on the callable
\* the caller holds
EmitCallInsn ==
    /\ calls # <<>> => calls[Len(calls)].status = "ok"
    /\ ~emitted.asked
    /\ \E insn \in CallInstructions(Receiver) :
        LET o == IF Receiver.cls = "CallableKernel"
                 THEN CallableKernel_emit_call_insn(Receiver, insn)
                 ELSE ScalarCallable_emit_call_insn(Receiver, insn)
        IN  emitted' = [asked |-> TRUE, callable |-> Receiver, insn |-> insn,
                        status |-> o.status, name |-> o.name,
                        c_parameters |-> o.c_parameters]
    /\ ready' = NotAsked
    /\ UNCHANGED <<fnVars, kwVars, regVars, c0, calls>>

NextCall ==
    \/ ScalarWithTypes
    \/ ManglerWithTypes
    \/ KernelWithTypes
    \/ ScalarWithDescrs
    \/ KernelWithDescrs
    \/ IsReadyForCodegen
    \/ EmitCallInsn

SpecCall == InitCall /\ [][NextCall]_vars

\* the type a callable carries for an id of the dict m, if it carries one
CarriesOther(self, m) ==
    /\ ~self.arg_id_to_dtype.isNone
    /\ \/ \E id \in DOMAIN m.pos \cap DOMAIN self.arg_id_to_dtype.pos :
            self.arg_id_to_dtype.pos[id] # m.pos[id]
       \/ \E id \in DOMAIN m.kw \cap DOMAIN self.arg_id_to_dtype.kw :
            self.arg_id_to_dtype.kw[id] # m.kw[id]

\* C2: with_types on a callable of any variant that already carries a type
\* for an id, with a dict that gives another type for that id, fails with
\* ConflictingSpecialization and returns no callable.
C2_ConflictAlwaysRejected ==
    \A k \in DOMAIN calls :
        (calls[k].op = "with_types" /\ CarriesOther(calls[k].recv, calls[k].arg))
            => calls[k].status = "ConflictingSpecialization"

\* C3: when with_types(m) on an unspecialized callable succeeds with c1,
\* c1.with_types(m) with the same dict succeeds too and returns a callable
\* equal to c1.
C3_WithTypesIdempotent ==
    \A k \in DOMAIN calls :
        ( /\ k >= 2
          /\ calls[k].op = "with_types" /\ calls[k-1].op = "with_types"
          /\ calls[k-1].recv.arg_id_to_dtype.isNone
          /\ calls[k-1].status = "ok"
          /\ calls[k].arg = calls[k-1].arg )
            => /\ calls[k].status = "ok"
               /\ calls[k].value = calls[k-1].value

\* C4: from a fresh ScalarCallable foo, with_types({0: int32}) succeeds,
\* with_types({1: int32}) on its result succeeds, and the type map of the
\* second result has the entries for id 0 and for id 1.
C4_WithTypesAccumulates ==
    ( /\ c0 = ScalarCallable("foo", NoneMap, NoneMap, NoName)
      /\ Len(calls) >= 1
      /\ calls[1].op = "with_types"
      /\ calls[1].arg = Dict((0 :> "int32"), EmptyMap) )
        => /\ calls[1].status = "ok"
           /\ ( /\ Len(calls) >= 2
                /\ calls[2].op = "with_types"
                /\ calls[2].arg = Dict((1 :> "int32"), EmptyMap) )
                => /\ calls[2].status = "ok"
                   /\ ~calls[2].value.arg_id_to_dtype.isNone
                   /\ {0, 1} \subseteq DOMAIN calls[2].value.arg_id_to_dtype.pos
                   /\ calls[2].value.arg_id_to_dtype.pos[0] = "int32"
                   /\ calls[2].value.arg_id_to_dtype.pos[1] = "int32"

\* C9: a specialization step changes neither the receiver (its type map,
\* its descriptor map, its subkernel) nor the dict passed in.
C9_NothingMutated ==
    \A k \in DOMAIN calls :
        /\ calls[k].recvAfter = calls[k].recv
        /\ calls[k].argAfter = calls[k].arg

\* the ids a callable is known to have: those of the arguments of the
\* subkernel, or else those its own maps name
KnownIds(self) ==
    IF self.cls = "CallableKernel"
    THEN DOMAIN get_kw_pos_association(self.subkernel).pos_to_kw
    ELSE DOMAIN self.arg_id_to_dtype.pos \cup DOMAIN self.arg_id_to_descr.pos

\* the dict has an entry for the id, by position or by keyword
Covers(self, d, id) ==
    \/ id \in DOMAIN d.pos
    \/ /\ self.cls = "CallableKernel"
       /\ get_kw_pos_association(self.subkernel).pos_to_kw[id] \in DOMAIN d.kw

TotalMaps(self) ==
    /\ ~self.arg_id_to_dtype.isNone
    /\ ~self.arg_id_to_descr.isNone
    /\ \A id \in KnownIds(self) :
        /\ Covers(self, self.arg_id_to_dtype, id)
        /\ Covers(self, self.arg_id_to_descr, id)

DescrsGiven(kernel, m, name) ==
    LET kw_to_pos == get_kw_pos_association(kernel).kw_to_pos IN
    {m.pos[id] : id \in {kw_to_pos[name]} \cap DOMAIN m.pos}
    \cup {m.kw[kw] : kw \in {name} \cap DOMAIN m.kw}

\* C16: CallableKernel.with_descrs gives the shape and the dim_tags of an
\* array descriptor to the argument of the subkernel that the id of the
\* descriptor stands for, in whatever order inputs and outputs are
\* declared, and leaves every other argument as it is.
C16_DescrReachesItsArgument ==
    \A k \in DOMAIN calls :
        ( /\ calls[k].op = "with_descrs"
          /\ calls[k].recv.cls = "CallableKernel"
          /\ calls[k].status = "ok" ) =>
            \A j \in DOMAIN calls[k].recv.subkernel.args :
                LET before == calls[k].recv.subkernel.args[j]
                    after == calls[k].value.subkernel.args[j]
                    given == DescrsGiven(calls[k].recv.subkernel,
                                         calls[k].arg, before.name)
                    arrays == {d \in given : d.kind = "Array"}
                IN  IF arrays = {}
                    THEN after = before
                    ELSE \E d \in arrays :
                            after = [before EXCEPT !.shape = d.shape,
                                                   !.dim_tags = d.dim_tags]

\* C17: with_types of the ScalarCallable make_tuple gives the type of
\* every input id i of the dict to the output id -(i+1), whatever ids the
\* dict has, and sets name_in_target to loopy_make_tuple.
C17_MakeTupleMapsEveryInput ==
    \A k \in DOMAIN calls :
        ( /\ calls[k].op = "with_types"
          /\ calls[k].recv.cls = "ScalarCallable"
          /\ calls[k].recv.name = "make_tuple"
          /\ calls[k].status = "ok" ) =>
            /\ calls[k].value.name_in_target = <<"loopy_make_tuple">>
            /\ \A i \in DOMAIN calls[k].arg.pos :
                i >= 0 =>
                    /\ -(i + 1) \in DOMAIN calls[k].value.arg_id_to_dtype.pos
                    /\ calls[k].value.arg_id_to_dtype.pos[-(i + 1)]
                            = calls[k].arg.pos[i]

\* what the resolver of a ManglerCallable returns for the input types of a
\* dict, taken by increasing id
MangleResultFor(self, m) ==
    function_mangler(self.function_mangler, self.name, SortedFrom(m.pos, 0))

\* C18: with_types of an unspecialized ManglerCallable hands the types of
\* the ids >= 0, by increasing id, to the resolver; when the resolver
\* returns nothing the call fails with the UnknownFunction LoopyError;
\* otherwise the type map of the new callable has the ids 0..k-1 with the
\* argument types of the result and -1, -2, ... with its result types, and
\* name_in_target is the name of the result.
C18_ManglerResolvesOrFailsUnknown ==
    \A k \in DOMAIN calls :
        ( /\ calls[k].op = "with_types"
          /\ calls[k].recv.cls = "ManglerCallable"
          /\ calls[k].recv.arg_id_to_dtype.isNone ) =>
            LET mangle_result == MangleResultFor(calls[k].recv, calls[k].arg)
            IN  IF mangle_result.isNone
                THEN calls[k].status = "UnknownFunction"
                ELSE /\ calls[k].status = "ok"
                     /\ calls[k].value.name_in_target
                            = mangle_result.target_name
                     /\ calls[k].value.arg_id_to_dtype =
                            Dict([id \in (0 .. Len(mangle_result.arg_dtypes) - 1)
                                    \cup {-i : i \in DOMAIN
                                                mangle_result.result_dtypes}
                                  |-> IF id >= 0
                                      THEN mangle_result.arg_dtypes[id + 1]
                                      ELSE mangle_result.result_dtypes[-id]],
                                 EmptyMap)

\* C19: after CallableKernel.with_types has succeeded the type map has
\* every argument of the subkernel under its keyword and under its
\* positional id, both with the type of the argument; an argument given a
\* type under both ids has the type given under the keyword.
C19_BothIdsSameType ==
    \A k \in DOMAIN calls :
        ( /\ calls[k].op = "with_types"
          /\ calls[k].recv.cls = "CallableKernel"
          /\ calls[k].status = "ok" ) =>
            LET new == calls[k].value
                kw_to_pos ==
                    get_kw_pos_association(calls[k].recv.subkernel).kw_to_pos
            IN  \A j \in DOMAIN new.subkernel.args :
                    LET arg == new.subkernel.args[j] IN
                    /\ arg.name \in DOMAIN new.arg_id_to_dtype.kw
                    /\ kw_to_pos[arg.name] \in DOMAIN new.arg_id_to_dtype.pos
                    /\ new.arg_id_to_dtype.kw[arg.name] = arg.dtype
                    /\ new.arg_id_to_dtype.pos[kw_to_pos[arg.name]]
                            = arg.dtype
                    /\ ( /\ arg.name \in DOMAIN calls[k].arg.kw
                         /\ kw_to_pos[arg.name] \in DOMAIN calls[k].arg.pos )
                            => arg.dtype = calls[k].arg.kw[arg.name]

\* with_types has succeeded on a dict that gives the input u one type by
\* keyword and another by position
C19_Witness ==
    \E k \in DOMAIN calls :
        /\ calls[k].op = "with_types"
        /\ calls[k].recv.cls = "CallableKernel"
        /\ calls[k].status = "ok"
        /\ "u" \in DOMAIN calls[k].arg.kw
        /\ 0 \in DOMAIN calls[k].arg.pos
        /\ calls[k].arg.kw["u"] # calls[k].arg.pos[0]
        /\ calls[k].value.arg_id_to_dtype.pos[0] = calls[k].arg.kw["u"]

(***************************************************************************)
(* Specification SpecReg: register_pymbolic_calls_to_knl_callables, one    *)
(* step of its loops at a time                                             *)
(***************************************************************************)
\* expression nodes a call can have as its function
VariableNode(name) == [node |-> "Variable", function |-> Variable(name)]
ScopedFunction(function) == [node |-> "ScopedFunction", function |-> function]
LookupNode(name) == [node |-> "Lookup", function |-> Variable(name)]

Call(function, parameters) ==
    [node |-> "Call", function |-> function, parameters |-> parameters]

\* an expression that is no call
Constant(value) == [node |-> "Constant", value |-> value]

\* the functions of the calls: plain names, a name an earlier registration
\* gave, an extremum-with-index operator, and an expression that is no name
CallFunctions ==
    {VariableNode(<<"f">>), VariableNode(<<"f", "_">>),
     VariableNode(<<"f", "_", "9">>),
     ScopedFunction(Variable(<<"f", "_", "0">>)),
     ScopedFunction(ArgExtOp("argmax")),
     LookupNode(<<"f">>)}

ValueDescrs == Dict((0 :> ValueArgDescriptor) @@ (-1 :> ValueArgDescriptor),
                    EmptyMap)

\* specialized callables of the three variants
SpecializedScalar(dtype) ==
    ScalarCallable("f", Dict((0 :> dtype) @@ (-1 :> dtype), EmptyMap),
                   ValueDescrs, <<"f">>)

SpecializedKernel ==
    CallableKernel(
        [name |-> <<"g">>,
         args |-> <<[KernelArg("u") EXCEPT !.dtype = "int32"],
                    [KernelArg("lap") EXCEPT !.dtype = "int32"]>>,
         written |-> {"lap"}],
        Dict((0 :> "int32") @@ (-1 :> "int32"),
             [u |-> "int32", lap |-> "int32"]),
        ValueDescrs, NoName)

SpecializedMangler ==
    ManglerCallable("pow", "exact",
                    Dict((0 :> "int32") @@ (-1 :> "int32"), EmptyMap),
                    ValueDescrs, <<"pow", "exact">>)

RegCallables ==
    {SpecializedScalar("int32"), SpecializedScalar("float64"),
     SpecializedKernel, SpecializedMangler}

\* the (call, callable) pairs one position of the mapping can hold; the
\* calls of different positions differ in their parameter; an operator is
\* the function of calls to scalar callables only
SiteItems(i) ==
    {it \in {[call |-> Call(fn, <<Constant(i)>>), callable |-> c] :
                fn \in CallFunctions, c \in RegCallables} :
        /\ it.call.function.function.kind = "ArgExtOp"
            => it.callable.cls = "ScalarCallable"
        /\ it.call.function.node = "Lookup"
            => it.callable = SpecializedScalar("int32")}

\* the mappings of n call sites, in the order they are iterated in
RECURSIVE ItemListsOf(_)
ItemListsOf(n) ==
    IF n = 0 THEN {<<>>}
    ELSE {Append(s, it) : s \in ItemListsOf(n - 1), it \in SiteItems(n)}

ItemLists == UNION {ItemListsOf(n) : n \in 1 .. MaxSites}

\* kernel.scoped_functions as earlier registrations can have left it
ScopedFunctionsBefore ==
    {EmptyMap,
     (Variable(<<"f", "_", "0">>) :> SpecializedScalar("int32")),
     (Variable(<<"f", "_", "0">>) :> SpecializedScalar("int32"))
        @@ (Variable(<<"f", "_", "1">>) :> SpecializedScalar("float64")),
     (Variable(<<"f", "_", "1", "0">>) :> SpecializedScalar("int32")),
     (ArgExtOp("argmax") :> SpecializedScalar("int32"))}

NotReturned ==
    [returned |-> FALSE, scoped_functions |-> EmptyMap, calls |-> <<>>]

InitReg ==
    /\ IdleKw
    /\ IdleFn
    /\ IdleCall
    /\ kernel_scoped_functions \in ScopedFunctionsBefore
    /\ items \in ItemLists
    /\ idx = 1
    /\ pc = "loop"
    /\ scoped_names_to_functions = kernel_scoped_functions
    /\ scoped_functions_to_names = EmptyMap
    /\ pymbolic_calls_to_new_names = EmptyMap
    /\ unique_var = NoFunction
    /\ probes = <<>>
    /\ assignLog = <<>>
    /\ result = NotReturned
    /\ firstRun = NotReturned

AtItem == pc = "loop" /\ idx <= Len(items)

\* the callable is in scoped_functions_to_names: the call gets its name
RegisterKnown ==
    /\ AtItem
    /\ items[idx].callable \in DOMAIN scoped_functions_to_names
    /\ pymbolic_calls_to_new_names' =
            Put(pymbolic_calls_to_new_names, items[idx].call,
                scoped_functions_to_names[items[idx].callable])
    /\ idx' = idx + 1
    /\ UNCHANGED <<fnVars, kwVars, callVars, firstRun, kernel_scoped_functions, items, pc,
                   scoped_names_to_functions, scoped_functions_to_names,
                   unique_var, probes, assignLog, result>>

\* the callable is new: the first candidate is made from the function of
\* the call
RegisterNew ==
    /\ AtItem
    /\ items[idx].callable \notin DOMAIN scoped_functions_to_names
    /\ items[idx].call.function.node \in {"Variable", "ScopedFunction"}
    /\ unique_var' = next_indexed_variable(items[idx].call.function.function)
    /\ probes' = <<unique_var'>>
    /\ pc' = "probe"
    /\ UNCHANGED <<fnVars, kwVars, callVars, firstRun, kernel_scoped_functions, items, idx,
                   scoped_names_to_functions, scoped_functions_to_names,
                   pymbolic_calls_to_new_names, assignLog, result>>

\* the function of the call is neither a Variable nor a ScopedFunction
RaiseNotImplemented ==
    /\ AtItem
    /\ items[idx].callable \notin DOMAIN scoped_functions_to_names
    /\ items[idx].call.function.node \notin {"Variable", "ScopedFunction"}
    /\ pc' = "NotImplementedError"
    /\ UNCHANGED <<fnVars, kwVars, callVars, firstRun, kernel_scoped_functions, items, idx,
                   scoped_names_to_functions, scoped_functions_to_names,
                   pymbolic_calls_to_new_names, unique_var, probes,
                   assignLog, result>>

\* the condition of the while loop
NameTaken ==
    /\ unique_var \in DOMAIN scoped_names_to_functions
    /\ unique_var.kind # "ArgExtOp"

\* one round of the while loop
ProbeNext ==
    /\ pc = "probe"
    /\ NameTaken
    /\ Len(probes) < MaxProbes
    /\ unique_var' = next_indexed_variable(unique_var)
    /\ probes' = Append(probes, unique_var')
    /\ UNCHANGED <<fnVars, kwVars, callVars, firstRun, kernel_scoped_functions, items, idx, pc,
                   scoped_names_to_functions, scoped_functions_to_names,
                   pymbolic_calls_to_new_names, assignLog, result>>

\* the callable as it is stored: a CallableKernel is copied with the name
\* as its name in the target
StoredCallable(in_knl_callable, name) ==
    IF in_knl_callable.cls = "CallableKernel"
    THEN Copy(in_knl_callable, in_knl_callable.subkernel,
              in_knl_callable.arg_id_to_dtype,
              in_knl_callable.arg_id_to_descr, name.name)
    ELSE in_knl_callable

\* the while loop is left: book-keeping of the name and the callable
BookKeep ==
    /\ pc = "probe"
    /\ ~NameTaken
    /\ LET in_knl_callable == StoredCallable(items[idx].callable, unique_var)
       IN  /\ scoped_names_to_functions' =
                Put(scoped_names_to_functions, unique_var, in_knl_callable)
           /\ scoped_functions_to_names' =
                Put(scoped_functions_to_names, in_knl_callable, unique_var)
           /\ pymbolic_calls_to_new_names' =
                Put(pymbolic_calls_to_new_names, items[idx].call,
                    scoped_functions_to_names'[in_knl_callable])
           /\ assignLog' = Append(assignLog,
                [call |-> items[idx].call,
                 name |-> unique_var,
                 callable |-> in_knl_callable,
                 present |-> unique_var \in DOMAIN scoped_names_to_functions,
                 tried |-> probes])
    /\ idx' = idx + 1
    /\ pc' = "loop"
    /\ UNCHANGED <<fnVars, kwVars, callVars, firstRun, kernel_scoped_functions, items,
                   unique_var, probes, result>>

\* kernel.substitutions: one rule r, whose body is its argument
old_subst_rules == {<<"r">>}

\* parse_tagged_name(expr.function): the name of the function of a call
parse_tagged_name(function) == function.function.name

\* SubstitutionRuleExpander: every call of a rule is replaced by the body
\* of the rule
RECURSIVE subst_expander(_)
subst_expander(expr) ==
    IF expr.node # "Call" THEN expr
    ELSE IF /\ expr.function.node = "Variable"
            /\ parse_tagged_name(expr.function) \in old_subst_rules
    THEN subst_expander(expr.parameters[1])
    ELSE Call(expr.function,
              [i \in DOMAIN expr.parameters |->
                    subst_expander(expr.parameters[i])])

\* mutant: the parameters of a renamed call are kept as they are
RECURSIVE map_call_shallow(_, _)
map_call_shallow(expr, expr_to_new_names) ==
    IF expr.node # "Call" THEN expr
    ELSE IF expr \in DOMAIN expr_to_new_names
    THEN Call(ScopedFunction(expr_to_new_names[expr]), expr.parameters)
    ELSE Call(expr.function,
              [i \in DOMAIN expr.parameters |->
                    map_call_shallow(expr.parameters[i], expr_to_new_names)])

\* ScopedFunctionNameChanger.map_call on a call, and self.rec on any other
\* expression, which it leaves as it is; map_substitution and
\* IdentityMapper.map_call keep the function and map the parameters
RECURSIVE map_call(_, _)
map_call(expr, expr_to_new_names) ==
    IF expr.node # "Call" THEN expr
    ELSE
    LET children == [i \in DOMAIN expr.parameters |->
                        map_call(expr.parameters[i], expr_to_new_names)]
    IN
    IF /\ expr.function.node = "Variable"
       /\ parse_tagged_name(expr.function) \in old_subst_rules
    THEN Call(expr.function, children)
    ELSE LET expanded_expr == subst_expander(expr) IN
         IF expr \in DOMAIN expr_to_new_names
         THEN Call(ScopedFunction(expr_to_new_names[expr]), children)
         ELSE IF expanded_expr \in DOMAIN expr_to_new_names
         THEN Call(ScopedFunction(expr_to_new_names[expanded_expr]),
                   children)
         ELSE Call(expr.function, children)

\* all calls are registered: the calls of the kernel are renamed and the
\* kernel is returned with the new scoped_functions
Return ==
    /\ pc = "loop"
    /\ idx > Len(items)
    /\ result' = [returned |-> TRUE,
                  scoped_functions |-> scoped_names_to_functions,
                  calls |-> [i \in DOMAIN items |->
                                map_call(items[i].call,
                                         pymbolic_calls_to_new_names)]]
    /\ pc' = "done"
    /\ UNCHANGED <<fnVars, kwVars, callVars, firstRun, kernel_scoped_functions, items, idx,
                   scoped_names_to_functions, scoped_functions_to_names,
                   pymbolic_calls_to_new_names, unique_var, probes,
                   assignLog>>

\* mutant: the dict of the kernel is used without being copied, so it is
\* the dict the previous registration wrote into
scoped_functions_copy_alias(scoped_functions, written) == written

\* kernel.scoped_functions.copy() at the start of a registration: the
\* entries of the kernel, whatever an earlier registration wrote into its
\* own dict
scoped_functions_copy(scoped_functions, written) == scoped_functions

\* the registration is called once more with the same kernel and the same
\* mapping, iterated in the same order
RegisterAgain ==
    /\ pc = "done"
    /\ ~firstRun.returned
    /\ firstRun' = result
    /\ result' = NotReturned
    /\ scoped_names_to_functions' =
            scoped_functions_copy(kernel_scoped_functions,
                                  scoped_names_to_functions)
    /\ scoped_functions_to_names' = EmptyMap
    /\ pymbolic_calls_to_new_names' = EmptyMap
    /\ idx' = 1
    /\ pc' = "loop"
    /\ probes' = <<>>
    /\ assignLog' = <<>>
    /\ UNCHANGED <<fnVars, kwVars, callVars, kernel_scoped_functions, items,
                   unique_var>>

NextReg ==
    \/ RegisterAgain
    \/ RegisterKnown
    \/ RegisterNew
    \/ RaiseNotImplemented
    \/ ProbeNext
    \/ BookKeep
    \/ Return

SpecReg == InitReg /\ [][NextReg]_vars

\* the name the returned kernel has at the i-th call
NameAt(i) == result.calls[i].function.function

\* C1: call sites with equal callables get the same name, call sites with
\* different callables get different names, and these names are keys of
\* the registry that is returned.
C1_EqualCallablesShareNames ==
    result.returned =>
        \A i, j \in DOMAIN items :
            /\ NameAt(i) \in DOMAIN result.scoped_functions
            /\ items[i].callable = items[j].callable
                => NameAt(i) = NameAt(j)
            /\ items[i].callable # items[j].callable
                => NameAt(i) # NameAt(j)

\* C7: the candidates tried for a call have strictly increasing
\* numbers, and the name given to a new callable is not in
\* scoped_names_to_functions when it is given.
C7_ProbeIncreasingAndFresh ==
    \A k \in DOMAIN assignLog :
        /\ \A a, b \in DOMAIN assignLog[k].tried :
            a < b => Suffix(assignLog[k].tried[a])
                        < Suffix(assignLog[k].tried[b])
        /\ ~assignLog[k].present

\* C8: looking up the name given to a call site in the registry
\* that is returned yields a callable equal to the one supplied for the
\* call site.
C8_RoundTrip ==
    result.returned =>
        \A i \in DOMAIN items :
            /\ NameAt(i) \in DOMAIN result.scoped_functions
            /\ result.scoped_functions[NameAt(i)] = items[i].callable

\* an assignee whose inferred type is not the type the callable carries for
\* its output id
AssigneeDisagrees(self, insn) ==
    \E i \in DOMAIN insn.assignees :
        /\ -i \in DOMAIN self.arg_id_to_dtype.pos
        /\ self.arg_id_to_dtype.pos[-i] # insn.assignees[i]

\* C11: emit_call_insn on a ready callable raises the type mismatch error
\* whenever the inferred type of an assignee differs from the type the
\* callable carries for its output id, and returns a call only when every
\* assignee agrees.
C11_MismatchAlwaysRejected ==
    (emitted.asked /\ is_ready_for_codegen(emitted.callable)) =>
        /\ AssigneeDisagrees(emitted.callable, emitted.insn)
            => emitted.status = "TypeMismatch"
        /\ emitted.status = "ok"
            => ~AssigneeDisagrees(emitted.callable, emitted.insn)

\* C12: a second registration of the same mapping, in the same order, on
\* the same kernel returns the same names for the calls and the same
\* scoped_functions as the first.
C12_SameNamesOnSecondRun ==
    (result.returned /\ firstRun.returned) =>
        /\ result.calls = firstRun.calls
        /\ result.scoped_functions = firstRun.scoped_functions

\* both registrations have returned, and a name was found by probing past
\* a name of the kernel
C12_Witness ==
    /\ result.returned
    /\ firstRun.returned
    /\ \E k \in DOMAIN assignLog :
        /\ Len(assignLog[k].tried) >= 2
        /\ assignLog[k].name.kind = "Variable"

\* C13: the while loop that probes for a free name is left after finitely
\* many next_indexed_variable steps, whatever the name it starts from and
\* whatever names scoped_names_to_functions holds: no candidate is tried
\* twice and every candidate but the last is a name of the dict, so the
\* loop goes round at most once per name of the dict; the bound on the
\* candidates of the model is never what stops it.
C13_ProbingTerminates ==
    pc = "probe" =>
        /\ \A a, b \in DOMAIN probes : a # b => probes[a] # probes[b]
        /\ Len(probes) <= Cardinality(DOMAIN scoped_names_to_functions) + 1
        /\ NameTaken => Len(probes) < MaxProbes

\* the loop was left after it went round at least twice
C13_Witness ==
    /\ pc = "loop"
    /\ \E k \in DOMAIN assignLog :
        /\ Len(assignLog[k].tried) >= 3
        /\ \A a \in 1 .. Len(assignLog[k].tried) - 1 :
            assignLog[k].tried[a] \in DOMAIN scoped_names_to_functions

\* C21: the registration only adds to the registry: every entry of
\* kernel.scoped_functions is in the scoped_functions that are returned,
\* with the same callable, and no name given during the registration is
\* given to two different callables, the names that are
\* extremum-with-index operators included.
C21_RegistryOnlyGrows ==
    /\ result.returned =>
        \A name \in DOMAIN kernel_scoped_functions :
            /\ name \in DOMAIN result.scoped_functions
            /\ result.scoped_functions[name] = kernel_scoped_functions[name]
    /\ \A k, l \in DOMAIN assignLog :
        assignLog[k].name = assignLog[l].name
            => assignLog[k].callable = assignLog[l].callable

(***************************************************************************)
(* Specification SpecMap: ScopedFunctionNameChanger.map_call applied to an *)
(* expression of the kernel                                                *)
(***************************************************************************)
\* the functions of the calls of an expression: names without a callable,
\* the substitution rule r, and a name an earlier registration gave
MapFunctions ==
    {VariableNode(<<"f">>), VariableNode(<<"g">>), VariableNode(<<"r">>),
     ScopedFunction(Variable(<<"f", "_", "0">>))}

\* the expressions whose calls are nested at most d deep
RECURSIVE ExprsOfDepth(_)
ExprsOfDepth(d) ==
    IF d = 0 THEN {Constant(1), Constant(2)}
    ELSE LET sub == ExprsOfDepth(d - 1) IN
         sub \cup {Call(fn, <<e>>) : fn \in MapFunctions, e \in sub}
             \cup {Call(VariableNode(<<"f">>), <<e, Constant(2)>>) :
                        e \in sub}

\* calls a registration can have given a name to, with that name
TrackedNames ==
    (Call(VariableNode(<<"f">>), <<Constant(1)>>)
        :> Variable(<<"f", "_", "0">>))
    @@ (Call(VariableNode(<<"f">>),
             <<Call(VariableNode(<<"f">>), <<Constant(1)>>)>>)
        :> Variable(<<"f", "_", "1">>))
    @@ (Call(ScopedFunction(Variable(<<"f", "_", "0">>)), <<Constant(2)>>)
        :> Variable(<<"f", "_", "0", "_", "0">>))

\* expr_to_new_names: the names of some of these calls
NameMaps ==
    {[e \in S |-> TrackedNames[e]] : S \in SUBSET DOMAIN TrackedNames}

InitMap ==
    /\ IdleKw
    /\ IdleCall
    /\ IdleReg
    /\ fnInput \in {[applied |-> TRUE, expr |-> e, expr_to_new_names |-> m] :
                        e \in ExprsOfDepth(MaxDepth), m \in NameMaps}
    /\ fnOutput = NotApplied

\* the mapper is applied to the expression
MapCall ==
    /\ ~fnOutput.applied
    /\ fnOutput' = [applied |-> TRUE,
                    expr |-> map_call(fnInput.expr,
                                      fnInput.expr_to_new_names)]
    /\ UNCHANGED <<fnInput, kwVars, callVars, regVars>>

NextMap == MapCall

SpecMap == InitMap /\ [][NextMap]_vars

\* a call of a substitution rule
IsRuleCall(expr) ==
    /\ expr.function.node = "Variable"
    /\ parse_tagged_name(expr.function) \in old_subst_rules

\* a tracked call: the call, or the call with its rules expanded, has a
\* name in expr_to_new_names
IsTracked(expr, names) ==
    expr \in DOMAIN names \/ subst_expander(expr) \in DOMAIN names

NewName(expr, names) ==
    IF expr \in DOMAIN names THEN names[expr]
    ELSE names[subst_expander(expr)]

\* the expression has a tracked call or a call of a rule in it
RECURSIVE HasRewritten(_, _)
HasRewritten(expr, names) ==
    /\ expr.node = "Call"
    /\ \/ IsRuleCall(expr)
       \/ IsTracked(expr, names)
       \/ \E i \in DOMAIN expr.parameters :
            HasRewritten(expr.parameters[i], names)

\* the function of a tracked call is replaced by its name; the parameters
\* are as many, in the same order, each mapped
TrackedCallRenamed(expr, names, out) ==
    /\ out.node = "Call"
    /\ out.function = ScopedFunction(NewName(expr, names))
    /\ Len(out.parameters) = Len(expr.parameters)
    /\ \A i \in DOMAIN expr.parameters :
        out.parameters[i] = map_call(expr.parameters[i], names)

\* C14 as stated: map_call leaves every call as it is that is not tracked
\* and whose function is no substitution rule; of a tracked call it
\* replaces the function by the name and maps the parameters, which stay as
\* many and in the same order.
C14_IdentityOffTrackedCalls ==
    (fnOutput.applied /\ fnInput.expr.node = "Call"
        /\ ~IsRuleCall(fnInput.expr)) =>
        IF IsTracked(fnInput.expr, fnInput.expr_to_new_names)
        THEN TrackedCallRenamed(fnInput.expr, fnInput.expr_to_new_names,
                                fnOutput.expr)
        ELSE fnOutput.expr = fnInput.expr

\* C14 as amended: of a call that is not tracked and whose function is no
\* substitution rule, map_call keeps the function and maps the parameters,
\* which stay as many and in the same order, so the call is left as it is
\* when no parameter has a tracked call or a call of a rule in it; of a
\* tracked call it replaces the function by the name and maps the
\* parameters in the same way.
C14_IdentityOffTrackedCallsInside ==
    (fnOutput.applied /\ fnInput.expr.node = "Call"
        /\ ~IsRuleCall(fnInput.expr)) =>
        IF IsTracked(fnInput.expr, fnInput.expr_to_new_names)
        THEN TrackedCallRenamed(fnInput.expr, fnInput.expr_to_new_names,
                                fnOutput.expr)
        ELSE /\ fnOutput.expr.node = "Call"
             /\ fnOutput.expr.function = fnInput.expr.function
             /\ Len(fnOutput.expr.parameters)
                    = Len(fnInput.expr.parameters)
             /\ \A i \in DOMAIN fnInput.expr.parameters :
                    fnOutput.expr.parameters[i]
                        = map_call(fnInput.expr.parameters[i],
                                   fnInput.expr_to_new_names)
             /\ ~HasRewritten(fnInput.expr, fnInput.expr_to_new_names)
                    => fnOutput.expr = fnInput.expr

\* a tracked call with a tracked call as its parameter was mapped, and both
\* functions were replaced
C14_Witness ==
    /\ fnOutput.applied
    /\ fnInput.expr.node = "Call"
    /\ fnInput.expr \in DOMAIN fnInput.expr_to_new_names
    /\ fnInput.expr.parameters[1] \in DOMAIN fnInput.expr_to_new_names
    /\ fnOutput.expr.function # fnInput.expr.function
    /\ fnOutput.expr.parameters[1] # fnInput.expr.parameters[1]

(***************************************************************************)
(* Specification SpecDescr: the constructor of ArrayArgDescriptor          *)
(***************************************************************************)
\* a Python tuple or list with its elts
PyTuple(elts) == [type |-> "tuple", elts |-> elts]
PyList(elts) == [type |-> "list", elts |-> elts]

\* dim tags: instances of FixedStrideArrayDimTag, and one of another class
FixedStrideArrayDimTags == {"stride:1", "stride:n"}
DimTags == FixedStrideArrayDimTags \cup {"sep"}

SeqsUpTo(S, n) == UNION {[1 .. k -> S] : k \in 0 .. n}

\* ArrayArgDescriptor.__init__(shape, mem_scope, dim_tags): the sanity
\* checks, then the record with the three fields
ArrayArgDescriptor_init(shape, mem_scope, dim_tags) ==
    IF /\ shape.type = "tuple"
       /\ mem_scope \in STRING
       /\ dim_tags.type = "tuple"
       /\ \A i \in DOMAIN dim_tags.elts :
            dim_tags.elts[i] \in FixedStrideArrayDimTags
    THEN [status |-> "ok", shape |-> shape.elts, mem_scope |-> mem_scope,
          dim_tags |-> dim_tags.elts]
    ELSE [status |-> "AssertionError", shape |-> <<>>, mem_scope |-> "",
          dim_tags |-> <<>>]

InitDescr ==
    /\ IdleKw
    /\ IdleCall
    /\ IdleReg
    /\ fnInput \in
        {[applied |-> TRUE, shape |-> shape, mem_scope |-> mem_scope,
          dim_tags |-> dim_tags] :
            shape \in {PyTuple(x) : x \in SeqsUpTo({"n", "m"}, MaxDims)}
                        \cup {PyList(<<"n">>)},
            mem_scope \in {"GLOBAL", "LOCAL"},
            dim_tags \in {PyTuple(x) : x \in SeqsUpTo(DimTags, MaxDims)}
                        \cup {PyList(<<"stride:1">>)}}
    /\ fnOutput = NotApplied

\* the descriptor is constructed
Construct ==
    /\ ~fnOutput.applied
    /\ fnOutput' = [applied |-> TRUE,
                    descr |-> ArrayArgDescriptor_init(fnInput.shape,
                                fnInput.mem_scope, fnInput.dim_tags)]
    /\ UNCHANGED <<fnInput, kwVars, callVars, regVars>>

NextDescr == Construct

SpecDescr == InitDescr /\ [][NextDescr]_vars

\* C15: the constructor fails when shape and dim_tags differ in length, so
\* every ArrayArgDescriptor that was constructed has as many dim_tags as
\* axes.
C15_ShapeAndDimTagsSameLength ==
    fnOutput.applied =>
        /\ Len(fnInput.shape.elts) # Len(fnInput.dim_tags.elts)
            => fnOutput.descr.status = "AssertionError"
        /\ fnOutput.descr.status = "ok"
            => Len(fnOutput.descr.shape) = Len(fnOutput.descr.dim_tags)

(***************************************************************************)
(* Specification SpecName: the first candidate name for the function of a  *)
(* call, unique_var = next_indexed_variable(pymbolic_call_function)        *)
(***************************************************************************)
NameChars == {"f", "_", "0", "9"}

\* the functions a call can have: names of up to MaxNameLen characters and
\* an extremum-with-index operator
NamedFunctions ==
    {Variable(n) : n \in UNION {[1 .. k -> NameChars] : k \in 1 .. MaxNameLen}}
    \cup {ArgExtOp(op) : op \in ArgExtOps}

InitName ==
    /\ IdleKw
    /\ IdleCall
    /\ IdleReg
    /\ fnInput \in {[applied |-> TRUE, function |-> f] : f \in NamedFunctions}
    /\ fnOutput = NotApplied

\* the first candidate is made from the function of the call
FirstCandidate ==
    /\ ~fnOutput.applied
    /\ fnOutput' = [applied |-> TRUE,
                    function |-> next_indexed_variable(fnInput.function)]
    /\ UNCHANGED <<fnInput, kwVars, callVars, regVars>>

NextName == FirstCandidate

SpecName == InitName /\ [][NextName]_vars

\* the position of the underscore of a name of the form prefix_<digits>,
\* 0 for any other name
IndexUnderscore(name) ==
    LET us == {u \in 2 .. Len(name) - 1 :
                /\ name[u] = "_"
                /\ \A v \in u + 1 .. Len(name) : IsDigit(name[v])}
    IN  IF us = {} THEN 0 ELSE CHOOSE u \in us : TRUE

\* the successor of a name as the naming rule words it
Successor(name) ==
    LET u == IndexUnderscore(name) IN
    IF u # 0
    THEN SubSeq(name, 1, u) \o
            FormatInt(ParseInt(SubSeq(name, u + 1, Len(name))) + 1)
    ELSE IF name[Len(name)] = "_" THEN name \o <<"0">>
    ELSE name \o <<"_", "0">>

\* C20 as stated: next_indexed_variable turns prefix_<digits> into
\* prefix_<digits+1>, appends 0 to any other name that ends with an
\* underscore and _0 to the rest; the first candidate for a call is this
\* successor of the function of the call, never the function itself.
C20_FirstCandidateIsSuccessor ==
    fnOutput.applied =>
        /\ fnOutput.function = Variable(Successor(fnInput.function.name))
        /\ fnOutput.function # fnInput.function

\* C20 as amended: the same for every function that is a name; an
\* extremum-with-index operator is returned as it is, so the first
\* candidate for a call of such an operator is the operator itself.
C20_FirstCandidateIsSuccessorOfName ==
    fnOutput.applied =>
        IF fnInput.function.kind = "ArgExtOp"
        THEN fnOutput.function = fnInput.function
        ELSE /\ fnOutput.function
                    = Variable(Successor(fnInput.function.name))
             /\ fnOutput.function # fnInput.function

\* the successor of f_99 was taken: the number gets a digit more
C20_Witness ==
    /\ fnOutput.applied
    /\ fnInput.function = Variable(<<"f", "_", "9", "9">>)
    /\ fnOutput.function = Variable(<<"f", "_", "1", "0", "0">>)

====
